---- MODULE Spec2Model ----
(***************************************************************************)
(* Model of impala_to_trino.replace_func: a table of regular-expression    *)
(* rewrite rules applied in order to a SQL text, followed by a fixed       *)
(* post-processing pass and a read-only validator.                         *)
(*                                                                         *)
(* A text is a sequence of one-character strings, so that the regular      *)
(* expressions of the rule table are evaluated character by character.     *)
(***************************************************************************)
EXTENDS Integers, Sequences, FiniteSets, TLC

VARIABLES sql_content, warnings, conversion_stats, pc, idx, call,
          sql_input, trace, matched, prev_matched

vars == <<sql_content, warnings, conversion_stats, pc, idx, call,
          sql_input, trace, matched, prev_matched>>

(***************************************************************************)
(* Bounds of the model.                                                    *)
(***************************************************************************)
\* longest run of blanks written between a function name and its "("
MaxWs == 1
\* number of successive replace_func calls (call k+1 gets the text call k returned)
MaxCalls == 2

(***************************************************************************)
(* Characters.                                                             *)
(***************************************************************************)
UpperCase == <<"A","B","C","D","E","F","G","H","I","J","K","L","M","N","O","P","Q","R","S","T","U","V","W","X","Y","Z">>
LowerCase == <<"a","b","c","d","e","f","g","h","i","j","k","l","m","n","o","p","q","r","s","t","u","v","w","x","y","z">>
Digits == {"0","1","2","3","4","5","6","7","8","9"}

\* the grave accent character, which a TLA+ string cannot hold
Backtick == "GRAVE"

ToSet(s) == {s[k] : k \in DOMAIN s}

\* str.lower() on one character, and the case folding of re.IGNORECASE
ToLower == [c \in ToSet(UpperCase) |-> LowerCase[CHOOSE k \in 1..26 : UpperCase[k] = c]]

lower(c) == IF c \in DOMAIN ToLower THEN ToLower[c] ELSE c

Lower(s) == [k \in DOMAIN s |-> lower(s[k])]

\* \s of the re module and the separators of str.split() / str.strip()
IsSpace(c) == c \in {" ", "\t", "\n"}

\* \w of the re module
IsWord(c) == lower(c) \in ToSet(LowerCase) \/ c \in Digits \/ c = "_"

\* a value that is not a str (replace_func(None))
None == <<"None">>
IsStr(s) == s # None

(***************************************************************************)
(* Regular-expression primitives.                                          *)
(***************************************************************************)
\* the literal lit matches s at position p, ignoring case
MatchLit(s, p, lit) ==
  /\ p + Len(lit) - 1 <= Len(s)
  /\ \A k \in 1..Len(lit) : lower(s[p + k - 1]) = lower(lit[k])

\* the leftmost of a non-empty set of positions
Least(S) == CHOOSE k \in S : \A j \in S : k <= j

\* the leftmost position of S, 0 when S is empty
LeastOrZero(S) == IF S = {} THEN 0 ELSE Least(S)

\* \s* from position p: the position after the maximal run of blanks
SkipSpace(s, p) ==
  IF p > Len(s) THEN p
  ELSE Least({k \in p..Len(s) : ~IsSpace(s[k])} \cup {Len(s) + 1})

\* first position >= p holding character c, 0 when there is none
FindChar(s, p, c) == LeastOrZero({k \in p..Len(s) : s[k] = c})

NoMatch == [ok |-> FALSE, end |-> 0, g1 |-> <<>>, g2 |-> <<>>]

Found(e, a, b) == [ok |-> TRUE, end |-> e, g1 |-> a, g2 |-> b]

\* name\s*\(([^,]+),\s*([^)]+)\)  matched at position q of the "("
MatchTwo(s, q) ==
  LET c == FindChar(s, q + 1, ",")
  IN IF c = 0 \/ c = q + 1 THEN NoMatch
     ELSE LET w == SkipSpace(s, c + 1)
              r == FindChar(s, w, ")")
          IN IF r = 0 THEN NoMatch
             ELSE IF r > w THEN Found(r + 1, SubSeq(s, q + 1, c - 1), SubSeq(s, w, r - 1))
             \* [^)]+ found nothing: \s* gives back its last blank
             ELSE IF w > c + 1 THEN Found(r + 1, SubSeq(s, q + 1, c - 1), SubSeq(s, w - 1, w - 1))
             ELSE NoMatch

\* name\s*\(([^)]+)\)  and, with allowEmpty, name\s*\(([^)]*)\)
MatchOne(s, q, allowEmpty) ==
  LET r == FindChar(s, q + 1, ")")
  IN IF r = 0 \/ (r = q + 1 /\ ~allowEmpty) THEN NoMatch
     ELSE Found(r + 1, SubSeq(s, q + 1, r - 1), <<>>)

\* name\s*\(\)
MatchZero(s, q) ==
  IF q + 1 <= Len(s) /\ s[q + 1] = ")" THEN Found(q + 2, <<>>, <<>>) ELSE NoMatch

\* mapping['pattern'] matched at position p of s (re.IGNORECASE)
MatchAt(m, s, p) ==
  IF ~MatchLit(s, p, m.name) THEN NoMatch
  ELSE LET q == SkipSpace(s, p + Len(m.name))
       IN IF q > Len(s) \/ s[q] # "(" THEN NoMatch
          ELSE CASE m.shape = "two"  -> MatchTwo(s, q)
                 [] m.shape = "one"  -> MatchOne(s, q, FALSE)
                 [] m.shape = "opt"  -> MatchOne(s, q, TRUE)
                 [] m.shape = "zero" -> MatchZero(s, q)

(***************************************************************************)
(* String helpers of the replacement functions.                            *)
(***************************************************************************)
\* first position >= p holding a blank, Len(s)+1 when there is none
FindSpace(s, p) ==
  IF p > Len(s) THEN p
  ELSE Least({k \in p..Len(s) : IsSpace(s[k])} \cup {Len(s) + 1})

\* str.split()
RECURSIVE split(_)
split(s) ==
  LET p == SkipSpace(s, 1)
      e == FindSpace(s, p)
  IN IF p > Len(s) THEN <<>>
     ELSE <<SubSeq(s, p, e - 1)>> \o split(SubSeq(s, e, Len(s)))

\* last position <= p holding a non-blank, 0 when there is none
LastNonSpace(s, p) ==
  IF \E k \in 1..p : ~IsSpace(s[k])
  THEN CHOOSE k \in 1..p : ~IsSpace(s[k]) /\ \A j \in k + 1..p : IsSpace(s[j])
  ELSE 0

\* str.strip()
strip(s) == SubSeq(s, SkipSpace(s, 1), LastNonSpace(s, Len(s)))

\* str.replace("'", "")
RemoveQuotes(s) == SelectSeq(s, LAMBDA c : c # "'")

\* unit[:-1] if unit.endswith('s')
Singular(unit) ==
  IF unit # <<>> /\ unit[Len(unit)] = "s" THEN SubSeq(unit, 1, Len(unit) - 1) ELSE unit

(***************************************************************************)
(* The rule table.                                                         *)
(***************************************************************************)
Rule(f, n, sh) == [func_name |-> f, name |-> n, shape |-> sh]

function_mappings == <<
  Rule("add_months", <<"a","d","d","_","m","o","n","t","h","s">>, "two"),
  Rule("adddate", <<"a","d","d","d","a","t","e">>, "two"),
  Rule("date_add", <<"d","a","t","e","_","a","d","d">>, "two"),
  Rule("date_part", <<"D","A","T","E","_","P","A","R","T">>, "two"),
  Rule("date_sub", <<"D","A","T","E","_","S","U","B">>, "two"),
  Rule("datediff", <<"d","a","t","e","d","i","f","f">>, "two"),
  Rule("dayofmonth", <<"d","a","y","o","f","m","o","n","t","h">>, "one"),
  Rule("dayofweek", <<"d","a","y","o","f","w","e","e","k">>, "one"),
  Rule("from_utc_timestamp", <<"f","r","o","m","_","u","t","c","_","t","i","m","e","s","t","a","m","p">>, "two"),
  Rule("to_utc_timestamp", <<"t","o","_","u","t","c","_","t","i","m","e","s","t","a","m","p">>, "two"),
  Rule("group_concat", <<"g","r","o","u","p","_","c","o","n","c","a","t">>, "one"),
  Rule("ifnull", <<"i","f","n","u","l","l">>, "two"),
  Rule("instr", <<"i","n","s","t","r">>, "two"),
  Rule("int_months_between", <<"i","n","t","_","m","o","n","t","h","s","_","b","e","t","w","e","e","n">>, "two"),
  Rule("left", <<"l","e","f","t">>, "two"),
  Rule("strleft", <<"s","t","r","l","e","f","t">>, "two"),
  Rule("strright", <<"s","t","r","r","i","g","h","t">>, "two"),
  Rule("right", <<"r","i","g","h","t">>, "two"),
  Rule("to_date", <<"t","o","_","d","a","t","e">>, "one"),
  Rule("trunc", <<"t","r","u","n","c">>, "two"),
  Rule("unix_timestamp", <<"u","n","i","x","_","t","i","m","e","s","t","a","m","p">>, "opt"),
  Rule("weekofyear", <<"w","e","e","k","o","f","y","e","a","r">>, "one"),
  Rule("current_timestamp", <<"c","u","r","r","e","n","t","_","t","i","m","e","s","t","a","m","p">>, "zero") >>

NumRules == Len(function_mappings)

FuncNames == {function_mappings[k].func_name : k \in 1..NumRules}

\* _replace_date_add raises IndexError: value[1] or value[2] does not exist
IntervalRaises(g2) == Len(split(g2)) \notin {1} /\ Len(split(g2)) < 3

replace_date_add(g1, g2) ==
  LET value == split(g2)
  IN IF Len(value) = 1
     THEN <<"d","a","t","e","_","a","d","d","(","'","d","a","y","'",","," ">> \o g2 \o <<","," ","C","A","S","T","(">> \o g1 \o <<" ","A","S"," ","T","I","M","E","S","T","A","M","P",")",")">>
     ELSE <<"d","a","t","e","_","a","d","d","(","'">> \o Singular(value[3]) \o <<"'",","," ">> \o value[2] \o <<","," ">> \o g1 \o <<")">>

part_mapping == {<<"'","y","e","a","r","'">>, <<"'","m","o","n","t","h","'">>, <<"'","d","a","y","'">>, <<"'","h","o","u","r","'">>, <<"'","m","i","n","u","t","e","'">>, <<"'","s","e","c","o","n","d","'">>}

replace_date_part(g1, g2) ==
  LET part == Lower(strip(g1))
      date == strip(g2)
      mapped == IF part \in part_mapping THEN SubSeq(part, 2, Len(part) - 1) ELSE part
  IN <<"e","x","t","r","a","c","t","(">> \o RemoveQuotes(mapped) \o <<" ","F","R","O","M"," ">> \o date \o <<")">>

replace_date_sub(g1, g2) ==
  LET value == split(g2)
  IN IF Len(value) = 1
     THEN <<"d","a","t","e","_","a","d","d","(","'","d","a","y","'",","," ","-">> \o g2 \o <<","," ">> \o g1 \o <<")">>
     ELSE <<"d","a","t","e","_","a","d","d","(","'">> \o Singular(value[3]) \o <<"'",","," ","-">> \o value[2] \o <<","," ">> \o g1 \o <<")">>

\* mapping['replacement'] raises on the match with groups g1, g2
ReplacementRaises(f, g1, g2) ==
  f \in {"date_add", "date_sub"} /\ IntervalRaises(g2)

\* mapping['replacement'] applied to the match with groups g1, g2
replacement(f, g1, g2) ==
  CASE f = "add_months" -> <<"d","a","t","e","_","a","d","d","(","'","m","o","n","t","h","'",","," ">> \o g2 \o <<","," ","C","A","S","T","(">> \o g1 \o <<" ","A","S"," ","T","I","M","E","S","T","A","M","P",")",")">>
    [] f = "adddate" -> <<"d","a","t","e","_","a","d","d","(","'","d","a","y","'",","," ">> \o g2 \o <<","," ">> \o g1 \o <<")">>
    [] f = "date_add" -> replace_date_add(g1, g2)
    [] f = "date_part" -> replace_date_part(g1, g2)
    [] f = "date_sub" -> replace_date_sub(g1, g2)
    [] f = "datediff" -> <<"d","a","t","e","_","d","i","f","f","(","'","d","a","y","'",","," ">> \o g2 \o <<","," ">> \o g1 \o <<")">>
    [] f = "dayofmonth" -> <<"D","A","Y","(">> \o g1 \o <<")">>
    [] f = "dayofweek" -> <<"I","F","(","d","a","y","_","o","f","_","w","e","e","k","(">> \o g1 \o <<")","+","1"," ",">"," ","7",","," ","1",","," ","d","a","y","_","o","f","_","w","e","e","k","(">> \o g1 \o <<")","+","1",")">>
    [] f = "from_utc_timestamp" -> <<"a","t","_","t","i","m","e","z","o","n","e","(">> \o g1 \o <<","," ">> \o g2 \o <<")">>
    [] f = "to_utc_timestamp" -> <<"a","t","_","t","i","m","e","z","o","n","e","(">> \o g1 \o <<","," ","'","U","T","C","'",")">>
    [] f = "group_concat" -> <<"a","r","r","a","y","_","j","o","i","n","(","a","r","r","a","y","_","a","g","g","(">> \o g1 \o <<")",","," ","'",",","'",")">>
    [] f = "ifnull" -> <<"C","O","A","L","E","S","C","E","(">> \o g1 \o <<","," ">> \o g2 \o <<")">>
    [] f = "instr" -> <<"s","t","r","p","o","s","(">> \o g1 \o <<","," ">> \o g2 \o <<")">>
    [] f = "int_months_between" -> <<"d","a","t","e","_","d","i","f","f","(","'","m","o","n","t","h","'",","," ">> \o g2 \o <<","," ">> \o g1 \o <<")">>
    [] f = "left" -> <<"s","u","b","s","t","r","i","n","g","(">> \o g1 \o <<","," ","1",","," ">> \o g2 \o <<")">>
    [] f = "strleft" -> <<"s","u","b","s","t","r","i","n","g","(">> \o g1 \o <<","," ","1",","," ">> \o g2 \o <<")">>
    [] f = "strright" -> <<"s","u","b","s","t","r","i","n","g","(">> \o g1 \o <<","," ","-">> \o g2 \o <<")">>
    [] f = "right" -> <<"s","u","b","s","t","r","i","n","g","(">> \o g1 \o <<","," ","-">> \o g2 \o <<")">>
    [] f = "to_date" -> <<"d","a","t","e","(">> \o g1 \o <<")">>
    [] f = "trunc" -> <<"d","a","t","e","_","t","r","u","n","c","(">> \o g2 \o <<","," ">> \o g1 \o <<")">>
    [] f = "unix_timestamp" -> <<"t","o","_","u","n","i","x","t","i","m","e","(">> \o (IF g1 # <<>> THEN g1 ELSE <<"n","o","w","(",")">>) \o <<")">>
    [] f = "weekofyear" -> <<"w","e","e","k","(">> \o g1 \o <<")">>
    [] f = "current_timestamp" -> <<"C","A","S","T","(","N","O","W","(",")"," ","A","S"," ","T","I","M","E","S","T","A","M","P",")">>

(***************************************************************************)
(* re.findall and re.sub over the whole text.                              *)
(***************************************************************************)
\* the leftmost position >= p where the pattern of m matches, 0 when there is none
NextMatch(m, s, p) == LeastOrZero({q \in p..Len(s) : MatchAt(m, s, q).ok})

\* len(re.findall(pattern, s, flags=re.IGNORECASE)), scanning from p:
\* non-overlapping matches, each search resuming where the last match ended
RECURSIVE CountFrom(_, _, _)
CountFrom(m, s, p) ==
  LET q == NextMatch(m, s, p)
  IN IF q = 0 THEN 0 ELSE 1 + CountFrom(m, s, MatchAt(m, s, q).end)

findall(m, s) == CountFrom(m, s, 1)

\* re.sub raises: the replacement raises on one of the matches
RECURSIVE RaisesFrom(_, _, _)
RaisesFrom(m, s, p) ==
  LET q == NextMatch(m, s, p)
      r == MatchAt(m, s, q)
  IN IF q = 0 THEN FALSE
     ELSE ReplacementRaises(m.func_name, r.g1, r.g2) \/ RaisesFrom(m, s, r.end)

\* re.sub(pattern, replacement, s, flags=re.IGNORECASE), scanning from p
RECURSIVE SubFrom(_, _, _)
SubFrom(m, s, p) ==
  LET q == NextMatch(m, s, p)
      r == MatchAt(m, s, q)
  IN IF q = 0 THEN SubSeq(s, p, Len(s))
     ELSE SubSeq(s, p, q - 1) \o replacement(m.func_name, r.g1, r.g2) \o SubFrom(m, s, r.end)

sub(m, s) == SubFrom(m, s, 1)

(***************************************************************************)
(* _apply_additional_transformations                                       *)
(***************************************************************************)
\* \b of the re module at position p (between s[p-1] and s[p])
WordBoundary(s, p) ==
  (p > 1 /\ IsWord(s[p - 1])) # (p <= Len(s) /\ IsWord(s[p]))

\* the literal pattern of t, with \b before (bl) and after (br) it, matches at p
LitAt(t, s, p) ==
  /\ MatchLit(s, p, t.lit)
  /\ (t.bl => WordBoundary(s, p))
  /\ (t.br => WordBoundary(s, p + Len(t.lit)))

\* re.sub of the literal pattern of t by t.repl, ignoring case, scanning from p
RECURSIVE SubLit(_, _, _)
SubLit(t, s, p) ==
  LET q == LeastOrZero({k \in p..Len(s) : LitAt(t, s, k)})
  IN IF q = 0 THEN SubSeq(s, p, Len(s))
     ELSE SubSeq(s, p, q - 1) \o t.repl \o SubLit(t, s, q + Len(t.lit))

Subst(l, r, b1, b2) == [lit |-> l, repl |-> r, bl |-> b1, br |-> b2]

type_mappings == <<
  Subst(<<"s","t","r","i","n","g">>, <<"V","A","R","C","H","A","R">>, TRUE, TRUE),
  Subst(<<"f","l","o","a","t">>, <<"D","O","U","B","L","E">>, TRUE, TRUE),
  Subst(<<"i","n","t">>, <<"I","N","T","E","G","E","R">>, TRUE, TRUE),
  Subst(<<"b","i","g","i","n","t">>, <<"B","I","G","I","N","T">>, TRUE, TRUE) >>

function_replacements == <<
  Subst(<<"d","e","f","a","u","l","t",".","g","b","_","f","o","r","m","a","t","_","d","a","t","e","t","i","m","e">>, <<"g","b","_","f","o","r","m","a","t","_","d","a","t","e","t","i","m","e">>, FALSE, FALSE),
  Subst(<<"d","e","f","a","u","l","t",".","g","b","_","j","s","o","n","_","p","a","r","s","e","r">>, <<"g","b","_","j","s","o","n","_","p","a","r","s","e","r">>, FALSE, FALSE),
  Subst(<<"d","e","f","a","u","l","t",".","g","b","_","t","o","_","e","s","t">>, <<"g","b","_","t","o","_","e","s","t">>, FALSE, FALSE),
  Subst(<<"d","e","f","a","u","l","t",".","g","b","_","c","o","m","p","l","e","t","e","d","_","m","o","n","t","h","s">>, <<"g","b","_","c","o","m","p","l","e","t","e","d","_","m","o","n","t","h","s">>, FALSE, FALSE),
  Subst(<<"t","e","m","p","d","b">>, <<"c","a","a","s","t","l","e","_","i","n","s","i","g","h","t","s">>, TRUE, TRUE),
  Subst(<<"'","E","D","T","'">>, <<"'","E","S","T","5","E","D","T","'">>, FALSE, FALSE) >>

\* for old, new in table.items(): s = re.sub(old, new, s, flags=re.IGNORECASE)
RECURSIVE SubAll(_, _)
SubAll(table, s) ==
  IF table = <<>> THEN s ELSE SubAll(Tail(table), SubLit(Head(table), s, 1))

\* s.replace(Backtick, '"')
ReplaceBackticks(s) == [k \in DOMAIN s |-> IF s[k] = Backtick THEN "\"" ELSE s[k]]

\* \d+ from position p: the position after the maximal run of digits
SkipDigits(s, p) ==
  IF p > Len(s) THEN p
  ELSE Least({k \in p..Len(s) : s[k] \notin Digits} \cup {Len(s) + 1})

\* re.sub(r'\binterval (\d+) ', r"INTERVAL '\1' ", s, flags=re.IGNORECASE)
\* \binterval (\d+)  matches at p
IntervalAt(s, p) ==
  LET d == p + Len(<<"i","n","t","e","r","v","a","l"," ">>)
      e == SkipDigits(s, d)
  IN /\ MatchLit(s, p, <<"i","n","t","e","r","v","a","l"," ">>)
     /\ WordBoundary(s, p)
     /\ e > d
     /\ e <= Len(s)
     /\ s[e] = " "

RECURSIVE SubInterval(_, _)
SubInterval(s, p) ==
  LET q == LeastOrZero({k \in p..Len(s) : IntervalAt(s, k)})
      d == q + Len(<<"i","n","t","e","r","v","a","l"," ">>)
      e == SkipDigits(s, d)
  IN IF q = 0 THEN SubSeq(s, p, Len(s))
     ELSE SubSeq(s, p, q - 1) \o <<"I","N","T","E","R","V","A","L"," ","'">> \o SubSeq(s, d, e - 1) \o <<"'"," ">>
          \o SubInterval(s, e + 1)

\* \\+ from position p: the position after the maximal run of backslashes
SkipBackslashes(s, p) ==
  IF p > Len(s) THEN p
  ELSE Least({k \in p..Len(s) : s[k] # "\\"} \cup {Len(s) + 1})

\* re.sub(r'\\+', r'\\\\', s)
RECURSIVE SubBackslashes(_, _)
SubBackslashes(s, p) ==
  LET q == FindChar(s, p, "\\")
  IN IF q = 0 THEN SubSeq(s, p, Len(s))
     ELSE SubSeq(s, p, q - 1) \o <<"\\", "\\">> \o SubBackslashes(s, SkipBackslashes(s, q))

apply_additional_transformations(s) ==
  LET s1 == SubAll(type_mappings, s)
      s2 == ReplaceBackticks(s1)
      s3 == SubInterval(s2, 1)
      s4 == SubBackslashes(s3, 1)
  IN SubAll(function_replacements, s4)

(***************************************************************************)
(* _validate_converted_sql                                                 *)
(***************************************************************************)
\* lit in s
Contains(s, lit) ==
  \E p \in 1..Len(s) :
    /\ p + Len(lit) - 1 <= Len(s)
    /\ \A k \in 1..Len(lit) : s[p + k - 1] = lit[k]

\* s.count(c)
count(s, c) == Cardinality({k \in DOMAIN s : s[k] = c})

Warning(m, f, e) == [msg |-> m, func |-> f, err |-> e]

Advice(m) == Warning(m, "", "")

WarnIf(cond, m) == IF cond THEN <<Advice(m)>> ELSE <<>>

validate_converted_sql(s) ==
     WarnIf(Contains(Lower(s), <<"a","d","d","_","m","o","n","t","h","s","(">>),
            "Potential unconverted add_months function detected")
  \o WarnIf(Contains(Lower(s), <<"d","a","t","e","d","i","f","f","(">>),
            "Potential unconverted datediff function detected")
  \o WarnIf(Contains(Lower(s), <<"c","u","r","r","e","n","t","_","t","i","m","e","s","t","a","m","p","(",")">>),
            "Potential unconverted current_timestamp function detected")
  \o WarnIf(count(s, "(") # count(s, ")"),
            "Unbalanced parentheses detected")
  \o WarnIf(Contains(Lower(s), <<"g","r","o","u","p","_","c","o","n","c","a","t","(">>),
            "group_concat function detected - verify conversion to array_join")

(***************************************************************************)
(* replace_func as a state machine: one step per rule of the table, one    *)
(* for the post-processing pass, one for the validator and the return.     *)
(***************************************************************************)
NewStats == [total_conversions |-> 0,
             functions_converted |-> [f \in {} |-> 0],
             errors |-> 0]

\* the texts replace_func is called with
Blanks(n) == [k \in 1..n |-> " "]

Invocation(name, ws, args) == name \o Blanks(ws) \o <<"(">> \o args \o <<")">>

CallNames == {Lower(function_mappings[k].name) : k \in 1..NumRules}

SimpleArgs == {<<>>, <<"d">>, <<"d",","," ","5">>}

ArgTexts ==
  SimpleArgs \cup
  {<<"d",","," ","i","n","t","e","r","v","a","l"," ","3"," ","m","o","n","t","h","s">>, <<"d",","," ","i","n","t","e","r","v","a","l"," ","3">>, <<"d",","," ">>, <<"'","Y","e","a","r","'",","," ","d">>, <<"d",","," ","f","(","x">>,
   <<"t","o","_","d","a","t","e","(","a",")",","," ","t","o","_","d","a","t","e","(","b",")">>}

\* a stray closing parenthesis written after an invocation
Stray == <<")">>

PlainTexts ==
  {<<"x","(">>,
   <<"I","F","N","U","L","L","(",Backtick,"a",Backtick,","," ","0",")"," ","+"," ","C","a","s","t","(","b"," ","A","S"," ","i","n","t",")">>,
   <<"t","e","m","p","d","b",".","t"," ","-"," ","i","n","t","e","r","v","a","l"," ","3","0"," ","d","a","y","s">>,
   <<"d","e","f","a","u","l","t",".","g","b","_","t","o","_","e","s","t","(","t","s",")"," ","="," ","'","E","D","T","'">>,
   <<"a","\\","\\","b"," ","s","t","r","i","n","g">>}

Inputs ==
  {Invocation(n, w, a) : n \in CallNames, w \in 0..MaxWs, a \in ArgTexts}
  \cup {Invocation(n, 0, a) \o Stray : n \in CallNames, a \in ArgTexts}
  \cup PlainTexts

Init ==
  /\ sql_content \in Inputs \cup {None}
  /\ sql_input = sql_content
  /\ warnings = <<>>
  /\ conversion_stats = NewStats
  /\ pc = "loop"
  /\ idx = 1
  /\ call = 1
  /\ trace = <<>>
  /\ matched = {}
  /\ prev_matched = {}

\* the error text of the exception the rule's try body raises
MappingError(s) ==
  IF IsStr(s) THEN "list index out of range"
  ELSE "expected string or bytes-like object, got 'NoneType'"

\* the try body of the loop raises: re.findall on a non-string, or the replacement
MappingRaises(m, s) == ~IsStr(s) \/ RaisesFrom(m, s, 1)

\* Tracked without the "conversions_made > 0" test: every rule is recorded
Tracked_Unguarded(stats, f, matches_before, matches_after) ==
  LET conversions_made == matches_before - matches_after
  IN [stats EXCEPT
        !.functions_converted = @ @@ (f :> conversions_made),
        !.total_conversions = @ + conversions_made]

\* conversion_stats after a rule that turned matches_before into matches_after
Tracked(stats, f, matches_before, matches_after) ==
  LET conversions_made == matches_before - matches_after
  IN IF conversions_made > 0
     THEN [stats EXCEPT
             !.functions_converted = @ @@ (f :> conversions_made),
             !.total_conversions = @ + conversions_made]
     ELSE stats

\* one iteration of the loop whose try body completes
ApplyMapping ==
  /\ pc = "loop"
  /\ idx <= NumRules
  /\ ~MappingRaises(function_mappings[idx], sql_content)
  /\ LET m == function_mappings[idx]
         matches_before == findall(m, sql_content)
         new_content == sub(m, sql_content)
         matches_after == findall(m, new_content)
     IN /\ sql_content' = new_content
        /\ conversion_stats' =
             Tracked(conversion_stats, m.func_name, matches_before, matches_after)
        /\ matched' = IF matches_before > 0 THEN matched \cup {m.func_name} ELSE matched
        /\ trace' = Append(trace, m.func_name)
  /\ idx' = idx + 1
  /\ UNCHANGED <<warnings, pc, call, sql_input, prev_matched>>

\* MappingFailed without "conversion_stats['errors'] += 1"
MappingFailed_Uncounted ==
  /\ pc = "loop"
  /\ idx <= NumRules
  /\ MappingRaises(function_mappings[idx], sql_content)
  /\ LET m == function_mappings[idx]
     IN /\ warnings' = Append(warnings,
              Warning("Warning: Failed to apply", m.func_name, MappingError(sql_content)))
        /\ trace' = Append(trace, m.func_name)
  /\ idx' = idx + 1
  /\ UNCHANGED <<sql_content, conversion_stats, pc, call, sql_input, matched, prev_matched>>

\* one iteration of the loop whose try body raises: the inner except clause
MappingFailed ==
  /\ pc = "loop"
  /\ idx <= NumRules
  /\ MappingRaises(function_mappings[idx], sql_content)
  /\ LET m == function_mappings[idx]
     IN /\ warnings' = Append(warnings,
              Warning("Warning: Failed to apply", m.func_name, MappingError(sql_content)))
        /\ trace' = Append(trace, m.func_name)
  /\ conversion_stats' = [conversion_stats EXCEPT !.errors = @ + 1]
  /\ idx' = idx + 1
  /\ UNCHANGED <<sql_content, pc, call, sql_input, matched, prev_matched>>

\* sql_content = _apply_additional_transformations(sql_content, debug)
Transform ==
  /\ pc = "loop"
  /\ idx = NumRules + 1
  /\ IsStr(sql_content)
  /\ sql_content' = apply_additional_transformations(sql_content)
  /\ trace' = Append(trace, "transform")
  /\ pc' = "validate"
  /\ UNCHANGED <<warnings, conversion_stats, idx, call, sql_input, matched, prev_matched>>

\* ConversionFailed without the final "raise": the call returns after the handler
ConversionFailed_Swallowed ==
  /\ pc = "loop"
  /\ idx = NumRules + 1
  /\ ~IsStr(sql_content)
  /\ warnings' = Append(warnings,
       Warning("Failed to convert SQL", "", "expected string or bytes-like object, got 'NoneType'"))
  /\ conversion_stats' = [conversion_stats EXCEPT !.errors = @ + 1]
  /\ trace' = Append(trace, "transform")
  /\ pc' = "returned"
  /\ UNCHANGED <<sql_content, idx, call, sql_input, matched, prev_matched>>

\* _apply_additional_transformations raises (re.sub on a non-string): the outer
\* except clause records the failure and re-raises
ConversionFailed ==
  /\ pc = "loop"
  /\ idx = NumRules + 1
  /\ ~IsStr(sql_content)
  /\ warnings' = Append(warnings,
       Warning("Failed to convert SQL", "", "expected string or bytes-like object, got 'NoneType'"))
  /\ conversion_stats' = [conversion_stats EXCEPT !.errors = @ + 1]
  /\ trace' = Append(trace, "transform")
  /\ pc' = "raised"
  /\ UNCHANGED <<sql_content, idx, call, sql_input, matched, prev_matched>>

\* Validate putting the validator's warnings in front of the recorded ones
Validate_Prepended ==
  /\ pc = "validate"
  /\ warnings' = validate_converted_sql(sql_content) \o warnings
  /\ trace' = Append(trace, "validate")
  /\ pc' = "returned"
  /\ UNCHANGED <<sql_content, conversion_stats, idx, call, sql_input, matched, prev_matched>>

\* warnings.extend(_validate_converted_sql(sql_content, debug)); return
Validate ==
  /\ pc = "validate"
  /\ warnings' = warnings \o validate_converted_sql(sql_content)
  /\ trace' = Append(trace, "validate")
  /\ pc' = "returned"
  /\ UNCHANGED <<sql_content, conversion_stats, idx, call, sql_input, matched, prev_matched>>

\* the caller passes the returned text to replace_func again
CallAgain ==
  /\ pc = "returned"
  /\ call < MaxCalls
  /\ call' = call + 1
  /\ sql_input' = sql_content
  /\ warnings' = <<>>
  /\ conversion_stats' = NewStats
  /\ pc' = "loop"
  /\ idx' = 1
  /\ trace' = <<>>
  /\ prev_matched' = matched
  /\ matched' = {}
  /\ UNCHANGED sql_content

Next ==
  \/ ApplyMapping
  \/ MappingFailed
  \/ Transform
  \/ ConversionFailed
  \/ Validate
  \/ CallAgain

Spec == Init /\ [][Next]_vars

(***************************************************************************)
(* Vocabulary of the properties.                                           *)
(***************************************************************************)
Stats == conversion_stats

IsRuleFailure(w) == w.msg = "Warning: Failed to apply"

IsFatal(w) == w.msg = "Failed to convert SQL"

RuleFailures(ws) == Cardinality({k \in DOMAIN ws : IsRuleFailure(ws[k])})

Fatals(ws) == Cardinality({k \in DOMAIN ws : IsFatal(ws[k])})

Finished == pc \in {"returned", "raised"}

\* the phases of one complete call, in order
FullTrace == [k \in 1..NumRules |-> function_mappings[k].func_name] \o <<"transform", "validate">>

\* the argument lists of the documented arity of a rule shape, simple arguments
ArityArgs(shape) ==
  CASE shape = "two"  -> {<<"d",","," ","5">>}
    [] shape = "one"  -> {<<"d">>}
    [] shape = "opt"  -> {<<>>, <<"d">>}
    [] shape = "zero" -> {<<>>}

\* the texts that are exactly one well-formed invocation of rule m
WellFormed(m) ==
  {Invocation(Lower(m.name), w, a) : w \in 0..MaxWs, a \in ArityArgs(m.shape)}

AllWellFormed == UNION {WellFormed(function_mappings[k]) : k \in 1..NumRules}

\* sum of the counts stored in functions_converted
RECURSIVE SumCounts(_, _)
SumCounts(fc, k) ==
  IF k = 0 THEN 0
  ELSE (IF function_mappings[k].func_name \in DOMAIN fc
        THEN fc[function_mappings[k].func_name] ELSE 0) + SumCounts(fc, k - 1)

\* the step of the loop is about to fail on rule idx
AboutToFail ==
  pc = "loop" /\ idx <= NumRules /\ MappingRaises(function_mappings[idx], sql_content)

(***************************************************************************)
(* C1. When applying a rule raises: one warning naming the rule, one more  *)
(* error, the text untouched, the loop goes on to the next rule.           *)
(***************************************************************************)
C1_FailureAbsorbed ==
  AboutToFail =>
    /\ warnings' = Append(warnings,
         Warning("Warning: Failed to apply", function_mappings[idx].func_name,
                 MappingError(sql_content)))
    /\ Stats'.errors = Stats.errors + 1
    /\ Stats'.total_conversions = Stats.total_conversions
    /\ Stats'.functions_converted = Stats.functions_converted
    /\ sql_content' = sql_content
    /\ pc' = "loop"
    /\ idx' = idx + 1

\* ... and the call with a failed rule runs every phase and returns normally
C1_StillReturns ==
  (Finished /\ RuleFailures(warnings) > 0) => (pc = "returned" /\ trace = FullTrace)

\* C1 as claimed: a rule failure is absorbed and the call always returns normally
C1_Original == [][C1_FailureAbsorbed]_vars /\ []C1_StillReturns

\* C1 amended: the call returns normally when the input is a string; on a
\* non-string input every rule fails, the post-processing pass is still
\* entered and raises, and the call ends in the outer handler
C1_Amended ==
  /\ [][C1_FailureAbsorbed]_vars
  /\ []((Finished /\ RuleFailures(warnings) > 0) =>
          /\ SubSeq(trace, 1, NumRules + 1) = SubSeq(FullTrace, 1, NumRules + 1)
          /\ IsStr(sql_input) => (pc = "returned" /\ trace = FullTrace))

\* C1 witness: date_add raised on "interval 3", the call went on and returned
C1_Witness ==
  /\ pc = "returned"
  /\ call = 1
  /\ sql_input = <<"d","a","t","e","_","a","d","d","(","d",","," ","i","n","t","e","r","v","a","l"," ","3",")">>
  /\ sql_content = sql_input
  /\ warnings = <<Warning("Warning: Failed to apply", "date_add", "list index out of range")>>
  /\ Stats.errors = 1
  /\ trace = FullTrace

(***************************************************************************)
(* C2. add_months(d, n) with simple arguments comes out as                 *)
(* date_add('month', n, CAST(d AS TIMESTAMP)); no later rule rewrites it.  *)
(***************************************************************************)
C2_AddMonths ==
  \A w \in 0..MaxWs :
    (pc = "returned" /\ call = 1 /\ sql_input = Invocation(<<"a","d","d","_","m","o","n","t","h","s">>, w, <<"d",","," ","5">>))
      => sql_content = <<"d","a","t","e","_","a","d","d","(","'","m","o","n","t","h","'",","," ","5",","," ","C","A","S","T","(","d"," ","A","S"," ","T","I","M","E","S","T","A","M","P",")",")">>

(***************************************************************************)
(* C3. strleft(s, n) with simple arguments comes out as substring(s, 1, n) *)
(* in place of the whole call.                                             *)
(***************************************************************************)
C3_StrLeft ==
  \A w \in 0..MaxWs :
    (pc = "returned" /\ call = 1 /\ sql_input = Invocation(<<"s","t","r","l","e","f","t">>, w, <<"d",","," ","5">>))
      => sql_content = <<"s","u","b","s","t","r","i","n","g","(","d",","," ","1",","," ","5",")">>

(***************************************************************************)
(* C4. Applying a rule to a text that is exactly one well-formed           *)
(* invocation of its function leaves no match of its pattern and counts    *)
(* exactly one conversion for it.                                          *)
(***************************************************************************)
C4_Step ==
  \A k \in 1..NumRules :
    (pc = "loop" /\ idx = k /\ sql_content \in WellFormed(function_mappings[k]))
      => /\ findall(function_mappings[k], sql_content') = 0
         /\ function_mappings[k].func_name \in DOMAIN Stats'.functions_converted
         /\ Stats'.functions_converted[function_mappings[k].func_name] = 1

\* C4: every step that applies a rule to one well-formed invocation of its
\* function leaves no match and records exactly one conversion
C4_OneConversion == [][C4_Step]_vars

(***************************************************************************)
(* C5. An input with unequal numbers of "(" and ")" always gets the        *)
(* "Unbalanced parentheses detected" warning.                              *)
(***************************************************************************)
C5_Unbalanced ==
  (pc = "returned" /\ count(sql_input, "(") # count(sql_input, ")"))
    => \E k \in DOMAIN warnings : warnings[k] = Advice("Unbalanced parentheses detected")

(***************************************************************************)
(* C6. A second call on the text a first call returned converts nothing,   *)
(* when the first call matched no date_add.                                *)
(***************************************************************************)
C6_Idempotent ==
  (pc = "returned" /\ call > 1 /\ "date_add" \notin prev_matched)
    => Stats.total_conversions = 0

(***************************************************************************)
(* C7. A failure of the post-processing pass is recorded as a warning,     *)
(* counted as one error and re-raised: the call returns nothing.  A rule   *)
(* failure never ends the call.                                            *)
(***************************************************************************)
C7_Step ==
  /\ (pc = "loop" /\ idx = NumRules + 1 /\ ~IsStr(sql_content)) =>
       /\ Len(warnings') = Len(warnings) + 1
       /\ SubSeq(warnings', 1, Len(warnings)) = warnings
       /\ IsFatal(warnings'[Len(warnings')])
       /\ Stats'.errors = Stats.errors + 1
       /\ pc' = "raised"
  /\ (pc = "loop" /\ idx <= NumRules) => pc' = "loop"
  /\ pc = "raised" => pc' = "raised"

\* C7: the outer handler records, counts and re-raises; a raised call never
\* reaches the validator or returns; rule failures stay in the loop
C7_Fatal ==
  /\ [][C7_Step]_vars
  /\ [](pc = "raised" => "validate" \notin ToSet(trace))
  /\ [](pc = "returned" => Fatals(warnings) = 0)

\* C7 witness: a non-string input has taken the outer handler
C7_Witness ==
  /\ pc = "raised"
  /\ sql_input = None
  /\ RuleFailures(warnings) = NumRules
  /\ IsFatal(warnings[NumRules + 1])
  /\ Stats.errors = NumRules + 1

(***************************************************************************)
(* C8. Phases run in order: the rules in table order, then the             *)
(* post-processing pass once (also after rule failures), then the          *)
(* validator, which leaves the text alone; rule-failure warnings come      *)
(* before validator warnings.                                              *)
(***************************************************************************)
C8_Order ==
  /\ Len(trace) <= Len(FullTrace)
  /\ trace = SubSeq(FullTrace, 1, Len(trace))
  /\ (pc = "loop") => Len(trace) = idx - 1
  /\ (pc = "validate") => Len(trace) = NumRules + 1
  /\ (pc = "returned") =>
       /\ trace = FullTrace
       /\ \A j \in DOMAIN warnings : \A k \in 1..j - 1 :
            IsRuleFailure(warnings[j]) => IsRuleFailure(warnings[k])

C8_Step ==
  /\ (pc = "loop" /\ idx <= NumRules /\ sql_content' # sql_content) =>
       sql_content' = sub(function_mappings[idx], sql_content)
  /\ (pc = "loop" /\ idx = NumRules + 1 /\ pc' = "validate") =>
       sql_content' = apply_additional_transformations(sql_content)
  /\ (pc = "validate") =>
       /\ sql_content' = sql_content
       /\ pc' = "returned"
       /\ SubSeq(warnings', 1, Len(warnings)) = warnings
       /\ \A k \in Len(warnings) + 1..Len(warnings') : ~IsRuleFailure(warnings'[k])

\* C8: rules in table order, then post-processing once, then the read-only
\* validator; rule-failure warnings precede validator warnings
C8_Phases == []C8_Order /\ [][C8_Step]_vars

\* C8 witness: a returned call with a rule failure and a validator warning
C8_Witness ==
  /\ pc = "returned"
  /\ call = 1
  /\ sql_input = <<"d","a","t","e","_","s","u","b","(","d",","," ","i","n","t","e","r","v","a","l"," ","3",")",")">>
  /\ trace = FullTrace
  /\ warnings = <<Warning("Warning: Failed to apply", "date_sub", "list index out of range"),
                  Advice("Unbalanced parentheses detected")>>

(***************************************************************************)
(* C9. total_conversions is the sum of the stored counts, every stored     *)
(* count is at least 1, and errors is the number of recorded failures.     *)
(***************************************************************************)
C9_Counts ==
  /\ Stats.total_conversions = SumCounts(Stats.functions_converted, NumRules)
  /\ DOMAIN Stats.functions_converted \subseteq FuncNames
  /\ \A f \in DOMAIN Stats.functions_converted : Stats.functions_converted[f] >= 1

\* C9 as claimed: errors counts the 'Failed to apply' warnings
C9_Original == C9_Counts /\ Stats.errors = RuleFailures(warnings)

\* C9 amended: errors counts the 'Failed to apply' warnings plus the
\* 'Failed to convert SQL' warning of the outer handler
C9_Amended == C9_Counts /\ Stats.errors = RuleFailures(warnings) + Fatals(warnings)

\* C9 witness: one recorded conversion and one rule failure in the same call
C9_Witness ==
  /\ pc = "returned"
  /\ call = 1
  /\ sql_input = <<"a","d","d","d","a","t","e","(","d",","," ","5",")">>
  /\ DOMAIN Stats.functions_converted = {"adddate"}
  /\ Stats.functions_converted["adddate"] = 1
  /\ Stats.total_conversions = 1
  /\ Stats.errors = 1
  /\ RuleFailures(warnings) = 1

(***************************************************************************)
(* C10. An input that is one well-formed invocation of a rule-table        *)
(* function with simple arguments makes no rule fail.                      *)
(***************************************************************************)
C10_NoFailure ==
  (pc = "returned" /\ call = 1 /\ sql_input \in AllWellFormed)
    => (Stats.errors = 0 /\ RuleFailures(warnings) = 0)

====
